---- MODULE Spec2Model ----
(***************************************************************************)
(* Model of distributed/deploy/local.py: LocalCluster.__init__ (the        *)
(* topology resolver and spec builder), nprocesses_nthreads (the resource  *)
(* partitioner) and clusters_to_close / close_clusters (the exit drain).   *)
(***************************************************************************)
EXTENDS Integers, Sequences, FiniteSets, TLC

(***************************************************************************)
(* Bounds of the model.                                                    *)
(***************************************************************************)
\* largest _ncores explored by the partitioner specification
MaxPartitionCores == 100
\* largest _ncores explored by the counts specification
MaxCores == 8
\* largest explicitly supplied n_workers / threads_per_worker
MaxCount == 4
\* number of LocalCluster objects one process constructs
MaxHandles == 2

(***************************************************************************)
(* Python values.  A value is None, a str (a sequence of characters) or an *)
(* int; the tag keeps the three apart the way Python's types do.           *)
(***************************************************************************)
PyNone == [kind |-> "none", s |-> <<>>, i |-> 0]
PyStr(str) == [kind |-> "str", s |-> str, i |-> 0]
PyInt(int) == [kind |-> "int", s |-> <<>>, i |-> int]

IsNone(v) == v.kind = "none"

\* Python truthiness: None, "" and 0 are falsy
Truthy(v) ==
    CASE v.kind = "none" -> FALSE
      [] v.kind = "str" -> v.s # <<>>
      [] v.kind = "int" -> v.i # 0

\* sub in s
Contains(sub, s) ==
    \E k \in 1..(Len(s) - Len(sub) + 1) : SubSeq(s, k, k + Len(sub) - 1) = sub

\* s.split(sep)[0]: everything before the first occurrence of sep (all of s
\* when sep does not occur)
SplitFirst(s, sep) ==
    LET hits == {k \in 1..(Len(s) - Len(sep) + 1) :
                    SubSeq(s, k, k + Len(sep) - 1) = sep}
    IN  IF hits = {} THEN s
        ELSE LET first == CHOOSE k \in hits : \A j \in hits : k <= j
             IN  SubSeq(s, 1, first - 1)

\* s.endswith(suf)
EndsWith(s, suf) ==
    /\ Len(s) >= Len(suf)
    /\ SubSeq(s, Len(s) - Len(suf) + 1, Len(s)) = suf

\* s.startswith(pre)
StartsWith(s, pre) ==
    /\ Len(s) >= Len(pre)
    /\ SubSeq(s, 1, Len(pre)) = pre

(***************************************************************************)
(* String literals of the source and of the explored requests.             *)
(***************************************************************************)
SEP == <<":", "/", "/">>
S_tcp == <<"t", "c", "p">>
S_tls == <<"t", "l", "s">>
S_inproc == <<"i", "n", "p", "r", "o", "c">>
S_loopback == <<"1", "2", "7", ".", "0", ".", "0", ".", "1">>
S_foo == <<"f", "o", "o">>
S_bar == <<"b", "a", "r">>
S_wild == <<"0", ".", "0", ".", "0", ".", "0">>
S_eth0 == <<"e", "t", "h", "0">>
S_dash == <<":", "8", "7", "8", "7">>

(***************************************************************************)
(* Deprecated-field aliasing, lines 125-134.                               *)
(***************************************************************************)
AliasHost(host, ip) == IF ~IsNone(ip) THEN ip ELSE host

AliasDashboard(dashboard_address, diagnostics_port) ==
    IF ~IsNone(diagnostics_port) THEN diagnostics_port ELSE dashboard_address

\* the warnings.warn calls of lines 126 and 130
Warnings(ip, diagnostics_port) ==
    (IF ~IsNone(ip) THEN {"ip"} ELSE {})
        \cup (IF ~IsNone(diagnostics_port) THEN {"diagnostics_port"} ELSE {})

(***************************************************************************)
(* Protocol resolution, lines 139-149.  host is the host after aliasing.   *)
(***************************************************************************)
\* mutant: the threads-only / inproc rule tried before the security rule
ChooseProtocol_InprocFirst(protocol, host, security, processes, scheduler_port) ==
    IF IsNone(protocol)
    THEN IF Truthy(host) /\ Contains(SEP, host.s) THEN SplitFirst(host.s, SEP)
         ELSE IF ~processes /\ ~Truthy(scheduler_port) THEN S_inproc \o SEP
         ELSE IF security THEN S_tls \o SEP
         ELSE S_tcp \o SEP
    ELSE protocol.s

ChooseProtocol(protocol, host, security, processes, scheduler_port) ==
    IF IsNone(protocol)
    THEN IF Truthy(host) /\ Contains(SEP, host.s) THEN SplitFirst(host.s, SEP)
         ELSE IF security THEN S_tls \o SEP
         ELSE IF ~processes /\ ~Truthy(scheduler_port) THEN S_inproc \o SEP
         ELSE S_tcp \o SEP
    ELSE protocol.s

NormalizeProtocol(p) == IF ~EndsWith(p, SEP) THEN p \o SEP ELSE p

(***************************************************************************)
(* Host defaulting, lines 151-152.  protocol is the normalized protocol.   *)
(***************************************************************************)
\* mutant: the scheme is cut off a host that embeds one
DefaultHost_StripScheme(host, protocol, interface) ==
    IF IsNone(host) /\ ~StartsWith(protocol, S_inproc) /\ ~Truthy(interface)
    THEN PyStr(S_loopback)
    ELSE IF Truthy(host) /\ Contains(SEP, host.s)
    THEN PyStr(SubSeq(host.s, Len(SplitFirst(host.s, SEP)) + Len(SEP) + 1,
                      Len(host.s)))
    ELSE host

\* mutant: the loopback default is applied whatever the protocol
DefaultHost_IgnoreProtocol(host, protocol, interface) ==
    IF IsNone(host) /\ ~Truthy(interface)
    THEN PyStr(S_loopback)
    ELSE host

DefaultHost(host, protocol, interface) ==
    IF IsNone(host) /\ ~StartsWith(protocol, S_inproc) /\ ~Truthy(interface)
    THEN PyStr(S_loopback)
    ELSE host

Min(S) == CHOOSE x \in S : \A y \in S : x <= y
Max(a, b) == IF a >= b THEN a ELSE b

(***************************************************************************)
(* dask.utils.factors and nprocesses_nthreads, lines 223-248.              *)
(***************************************************************************)
\* int(pow(n, 0.5)): the integer part of the square root
ISqrt(n) == CHOOSE r \in 0..n : r * r <= n /\ (r + 1) * (r + 1) > n

\* factors(n): {i, n // i} for i in range(1, int(pow(n, 0.5) + 1)) if n % i == 0
Factors(n) ==
    UNION {{d, n \div d} : d \in {e \in 1..ISqrt(n) : n % e = 0}}

\* f >= math.sqrt(n), for positive integers f and n
\* mutant: strict comparison with the square root
GeSqrt_Strict(f, n) == f * f > n

GeSqrt(f, n) == f * f >= n

nprocesses_nthreads(n) ==
    LET processes == IF n <= 4 THEN n
                     ELSE Min({f \in Factors(n) : GeSqrt(f, n)})
    IN  <<processes, n \div processes>>

(***************************************************************************)
(* Process / thread counts, lines 156-166.                                 *)
(***************************************************************************)
\* int(math.ceil(a / b)) under true division, for a >= 0 and b >= 1
CeilDiv(a, b) == IF a % b = 0 THEN a \div b ELSE (a \div b) + 1

\* mutant: the floor of one worker is dropped
WorkersFromThreads_NoFloor(cores, threads) == cores \div threads

\* mutant: floor division in place of the ceiling
ThreadsFromWorkers_Floor(cores, workers) == Max(1, cores \div workers)

\* line 163: max(1, _ncores // threads_per_worker)
WorkersFromThreads(cores, threads) == Max(1, cores \div threads)

\* line 166: max(1, int(math.ceil(_ncores / n_workers)))
ThreadsFromWorkers(cores, workers) == Max(1, CeilDiv(cores, workers))

\* lines 156-161: neither count supplied
DefaultCounts(processes, cores) ==
    IF processes
    THEN LET pt == nprocesses_nthreads(cores) IN <<PyInt(pt[1]), PyInt(pt[2])>>
    ELSE <<PyInt(1), PyInt(cores)>>

\* lines 156-166 in order; error names the exception line 163 raises on a
\* zero thread count
ResolveCounts(n_workers, threads_per_worker, processes, cores) ==
    LET a == IF IsNone(n_workers) /\ IsNone(threads_per_worker)
             THEN DefaultCounts(processes, cores)
             ELSE <<n_workers, threads_per_worker>>
        divzero == IsNone(a[1]) /\ ~IsNone(a[2]) /\ a[2].i = 0
        n == IF IsNone(a[1]) /\ ~IsNone(a[2]) /\ ~divzero
             THEN PyInt(WorkersFromThreads(cores, a[2].i))
             ELSE a[1]
        t == IF Truthy(n) /\ IsNone(a[2])
             THEN PyInt(ThreadsFromWorkers(cores, n.i))
             ELSE a[2]
    IN  [n_workers |-> n, threads_per_worker |-> t,
         error |-> IF divzero THEN "ZeroDivisionError" ELSE "none"]

(***************************************************************************)
(* parse_memory_limit("auto", 1, n_workers) of ..worker: an even share of  *)
(* the machine's memory.                                                   *)
(***************************************************************************)
TotalMemory == 64

ParseMemoryLimitAuto(workers) == TotalMemory \div workers

\* timeout handed to cluster.close, line 257
CloseTimeout == 10

(***************************************************************************)
(* State.                                                                  *)
(***************************************************************************)
VARIABLES
    ncores,             \* _ncores of ..worker: the machine's core count
    req,                \* the keyword arguments of the LocalCluster(...) calls
    pc,                 \* position of the main thread in __init__
    self,               \* the object under construction / last constructed
    nextId,             \* identity of the next object allocated
    loc,                \* <<locals of __init__ after line 168>>, <<>> before
    handed,             \* <<specs passed to SpecCluster.__init__>>, <<>> before
    calls,              \* collaborator calls of the current __init__, in order,
                        \* each <<callee, worker count passed, outcome>>
    warned,             \* warnings.warn calls of the current __init__
    live,               \* objects strongly referenced by the program
    clusters_to_close,  \* the module-level weakref.WeakSet
    dpc,                \* position in close_clusters
    snapshot,           \* list(clusters_to_close) of line 256
    attempts            \* cluster.close calls made by close_clusters, in order

vars == <<ncores, req, pc, self, nextId, loc, handed, calls, warned, live,
          clusters_to_close, dpc, snapshot, attempts>>

ctor == <<pc, self, nextId, loc, handed, calls, warned>>
drain == <<dpc, snapshot, attempts>>

Handles == 1..MaxHandles

\* the main thread is outside __init__
Idle == pc \in {"idle", "done", "raised"}

\* the interpreter has not begun to exit
Running == dpc = "notrun"

DefaultRequest ==
    [n_workers |-> PyNone, threads_per_worker |-> PyNone, processes |-> TRUE,
     host |-> PyNone, ip |-> PyNone, scheduler_port |-> PyInt(0),
     dashboard_address |-> PyStr(S_dash), diagnostics_port |-> PyNone,
     security |-> FALSE, protocol |-> PyNone, interface |-> PyNone,
     memory_limit |-> PyNone]

InitState ==
    /\ pc = "idle"
    /\ self = 0
    /\ nextId = 1
    /\ loc = <<>>
    /\ handed = <<>>
    /\ calls = <<>>
    /\ warned = {}
    /\ live = {}
    /\ clusters_to_close = {}
    /\ dpc = "notrun"
    /\ snapshot = <<>>
    /\ attempts = <<>>

(***************************************************************************)
(* LocalCluster.__init__, lines 125-220.                                   *)
(***************************************************************************)
\* mutant: an exception of the resolution stage is swallowed
InitFlow_Swallow(stage, outcome) ==
    CASE stage = "resolve" -> "resolved"
      [] stage = "super" -> IF outcome = "raise" THEN "raised" ELSE "bootstrapped"
      [] stage = "scale" -> IF outcome = "raise" THEN "raised" ELSE "done"

\* where __init__ goes after each stage: an exception of a stage propagates
\* to the caller, a return moves on to the next statement
InitFlow(stage, outcome) ==
    IF outcome = "raise" THEN "raised"
    ELSE CASE stage = "resolve" -> "resolved"
           [] stage = "super" -> "bootstrapped"
           [] stage = "scale" -> "done"

\* mutant: the legacy fields are applied after the defaulting rules
Locals_AliasAfter(r, cores) ==
    LET protocol == NormalizeProtocol(
            ChooseProtocol(r.protocol, r.host, r.security, r.processes,
                           r.scheduler_port))
        counts == ResolveCounts(r.n_workers, r.threads_per_worker,
                                r.processes, cores)
    IN  [host |-> AliasHost(DefaultHost(r.host, protocol, r.interface), r.ip),
         protocol |-> protocol,
         dashboard_address |-> AliasDashboard(r.dashboard_address,
                                              r.diagnostics_port),
         n_workers |-> counts.n_workers,
         threads_per_worker |-> counts.threads_per_worker,
         memory_limit |-> r.memory_limit,
         error |-> counts.error]

\* the locals of __init__ after lines 125-166
Locals(r, cores) ==
    LET host == AliasHost(r.host, r.ip)
        protocol == NormalizeProtocol(
            ChooseProtocol(r.protocol, host, r.security, r.processes,
                           r.scheduler_port))
        counts == ResolveCounts(r.n_workers, r.threads_per_worker,
                                r.processes, cores)
    IN  [host |-> DefaultHost(host, protocol, r.interface),
         protocol |-> protocol,
         dashboard_address |-> AliasDashboard(r.dashboard_address,
                                              r.diagnostics_port),
         n_workers |-> counts.n_workers,
         threads_per_worker |-> counts.threads_per_worker,
         memory_limit |-> r.memory_limit,
         error |-> counts.error]

\* line 167: the memory-limit collaborator is consulted
NeedsMemoryLimit(l, r) == Truthy(l.n_workers) /\ IsNone(r.memory_limit)

\* lines 125-168: aliasing, protocol, host, counts, memory limit
Resolve ==
    /\ Idle
    /\ Running
    /\ nextId <= MaxHandles
    /\ self' = nextId
    /\ nextId' = nextId + 1
    /\ handed' = <<>>
    /\ warned' = Warnings(req.ip, req.diagnostics_port)
    /\ LET l == Locals(req, ncores) IN
         IF l.error # "none"
         THEN /\ calls' = <<>>
              /\ loc' = <<l>>
              /\ pc' = InitFlow("resolve", "raise")
         ELSE IF NeedsMemoryLimit(l, req)
         THEN \E outcome \in {"ok", "raise"} :
                   /\ calls' = <<<<"parse_memory_limit", l.n_workers.i, outcome>>>>
                   /\ pc' = InitFlow("resolve", outcome)
                   /\ loc' = IF outcome = "ok"
                             THEN <<[l EXCEPT !.memory_limit =
                                        PyInt(ParseMemoryLimitAuto(l.n_workers.i))]>>
                             ELSE <<l>>
         ELSE /\ calls' = <<>>
              /\ loc' = <<l>>
              /\ pc' = InitFlow("resolve", "ok")
    /\ live' = IF pc' = "raised" THEN live ELSE live \cup {nextId}
    /\ UNCHANGED <<ncores, req, clusters_to_close, drain>>

\* lines 170-210: the two specs and the worker-slot map
BuildSpecs(l, r) ==
    [scheduler |->
        [cls |-> "Scheduler",
         options |->
            [host |-> l.host, security |-> r.security,
             port |-> r.scheduler_port, interface |-> r.interface,
             protocol |-> l.protocol,
             dashboard_address |-> l.dashboard_address]],
     worker |->
        [cls |-> IF ~r.processes THEN "Worker" ELSE "Nanny",
         options |->
            [memory_limit |-> l.memory_limit, ncores |-> l.threads_per_worker,
             interface |-> r.interface, protocol |-> l.protocol,
             security |-> r.security]],
     workers |-> 0..(l.n_workers.i - 1)]

\* lines 170-219: build the specs and call SpecCluster.__init__
SuperInit ==
    /\ pc = "resolved"
    /\ handed' = <<BuildSpecs(loc[1], req)>>
    /\ \E outcome \in {"ok", "raise"} :
         /\ calls' = Append(calls, <<"SpecCluster.__init__",
                                     Cardinality(handed'[1].workers), outcome>>)
         /\ pc' = InitFlow("super", outcome)
    /\ live' = IF pc' = "raised" THEN live \ {self} ELSE live
    /\ UNCHANGED <<ncores, req, self, nextId, loc, warned, clusters_to_close,
                   drain>>

\* line 220: self.scale(n_workers)
Scale ==
    /\ pc = "bootstrapped"
    /\ \E outcome \in {"ok", "raise"} :
         /\ calls' = Append(calls, <<"scale", loc[1].n_workers.i, outcome>>)
         /\ pc' = InitFlow("scale", outcome)
    /\ live' = IF pc' = "raised" THEN live \ {self} ELSE live
    /\ UNCHANGED <<ncores, req, self, nextId, loc, handed, warned,
                   clusters_to_close, drain>>

(***************************************************************************)
(* The weak set clusters_to_close, line 251.                               *)
(***************************************************************************)
\* clusters_to_close.add(h) by a holder of h
Register(h) ==
    /\ Idle
    /\ Running
    /\ h \in live
    /\ h \notin clusters_to_close
    /\ clusters_to_close' = clusters_to_close \cup {h}
    /\ UNCHANGED <<ncores, req, ctor, live, drain>>

\* the last strong reference to h is dropped: a WeakSet forgets it
Release(h) ==
    /\ Idle
    /\ Running
    /\ h \in live
    /\ live' = live \ {h}
    /\ clusters_to_close' = clusters_to_close \ {h}
    /\ UNCHANGED <<ncores, req, ctor, drain>>

(***************************************************************************)
(* close_clusters, lines 254-257, run by atexit.                           *)
(***************************************************************************)
\* every ordering of a finite set: list(WeakSet) fixes no order
Orderings(S) ==
    {q \in [1..Cardinality(S) -> S] : \A a, b \in 1..Cardinality(S) :
                                          q[a] = q[b] => a = b}

\* where the for loop goes after one cluster.close call
DrainFlow(outcome) == IF outcome = "raise" THEN "raised" ELSE "looping"

\* line 256: the snapshot list(clusters_to_close)
DrainStart ==
    /\ Idle
    /\ Running
    /\ \E q \in Orderings(clusters_to_close) : snapshot' = q
    /\ dpc' = "looping"
    /\ attempts' = <<>>
    /\ UNCHANGED <<ncores, req, ctor, live, clusters_to_close>>

\* line 257: cluster.close(timeout=10) on the next element of the snapshot
CloseNext ==
    /\ dpc = "looping"
    /\ Len(attempts) < Len(snapshot)
    /\ \E outcome \in {"ok", "raise"} :
         /\ attempts' = Append(attempts,
                [handle |-> snapshot[Len(attempts) + 1],
                 timeout |-> CloseTimeout, outcome |-> outcome])
         /\ dpc' = DrainFlow(outcome)
    /\ UNCHANGED <<ncores, req, ctor, live, clusters_to_close, snapshot>>

\* the for loop is exhausted and close_clusters returns
DrainReturn ==
    /\ dpc = "looping"
    /\ Len(attempts) = Len(snapshot)
    /\ dpc' = "returned"
    /\ UNCHANGED <<ncores, req, ctor, live, clusters_to_close, snapshot,
                   attempts>>

Next ==
    \/ Resolve
    \/ SuperInit
    \/ Scale
    \/ \E h \in Handles : Register(h)
    \/ \E h \in Handles : Release(h)
    \/ DrainStart
    \/ CloseNext
    \/ DrainReturn

(***************************************************************************)
(* Specifications: one machine, four families of requests.                 *)
(***************************************************************************)
\* lifecycle: a few requests, every path through __init__
LifecycleRequests ==
    {DefaultRequest,
     [DefaultRequest EXCEPT !.processes = FALSE],
     [DefaultRequest EXCEPT !.memory_limit = PyInt(1)],
     [DefaultRequest EXCEPT !.n_workers = PyInt(0)],
     [DefaultRequest EXCEPT !.threads_per_worker = PyInt(0)],
     [DefaultRequest EXCEPT !.n_workers = PyInt(2), !.ip = PyStr(S_bar)]}

Init ==
    /\ InitState
    /\ ncores \in {1, MaxCores}
    /\ req \in LifecycleRequests

Spec == Init /\ [][Next]_vars

\* partitioner: the default request on machines of every size
InitPartition ==
    /\ InitState
    /\ ncores \in 1..MaxPartitionCores
    /\ req = DefaultRequest

SpecPartition == InitPartition /\ [][Next]_vars

\* counts: every combination of supplied / unset process and thread counts
CountValues == {PyNone} \cup {PyInt(k) : k \in 0..MaxCount}

CountRequests ==
    {[DefaultRequest EXCEPT !.n_workers = n, !.threads_per_worker = t,
                            !.processes = p] :
        n \in CountValues, t \in CountValues, p \in BOOLEAN}

InitCounts ==
    /\ InitState
    /\ ncores \in 1..MaxCores
    /\ req \in CountRequests

SpecCounts == InitCounts /\ [][Next]_vars

\* topology: hosts, legacy fields, protocols, security, mode, port, interface
HostValues == {PyNone, PyStr(<<>>), PyStr(S_foo), PyStr(S_tls \o SEP \o S_foo)}
IpValues == {PyNone, PyStr(S_bar), PyStr(S_tcp \o SEP \o S_bar)}
ProtocolValues == {PyNone, PyStr(S_tcp), PyStr(S_inproc), PyStr(S_tls \o SEP)}
PortValues == {PyNone, PyInt(0), PyInt(8786)}
InterfaceValues == {PyNone, PyStr(<<>>), PyStr(S_eth0)}
DiagnosticsValues == {PyNone, PyInt(8787)}

TopologyRequests ==
    {[DefaultRequest EXCEPT !.host = h, !.ip = a, !.protocol = pr,
                            !.security = s, !.processes = p,
                            !.scheduler_port = po, !.interface = f,
                            !.diagnostics_port = dp] :
        h \in HostValues, a \in IpValues, pr \in ProtocolValues,
        s \in BOOLEAN, p \in BOOLEAN, po \in PortValues,
        f \in InterfaceValues, dp \in DiagnosticsValues}

InitTopology ==
    /\ InitState
    /\ ncores = 1
    /\ req \in TopologyRequests

SpecTopology == InitTopology /\ [][Next]_vars

(***************************************************************************)
(* Vocabulary of the properties.                                           *)
(***************************************************************************)
\* __init__ has run lines 125-166 without an exception
Resolved == loc # <<>> /\ loc[1].error = "none"

\* the specs have been passed to SpecCluster.__init__
Handed == handed # <<>>

\* pre is the text of s before its first "://"
IsSchemeOf(pre, s) ==
    \E k \in 0..(Len(s) - Len(SEP)) :
        /\ pre = SubSeq(s, 1, k)
        /\ SubSeq(s, k + 1, k + Len(SEP)) = SEP
        /\ \A j \in 0..(k - 1) : SubSeq(s, j + 1, j + Len(SEP)) # SEP

EmbedsScheme(v) ==
    v.kind = "str" /\ \E k \in 0..Len(v.s) : IsSchemeOf(SubSeq(v.s, 1, k), v.s)

\* the host the request asks for once the legacy ip field is taken into account
EffectiveHost == IF req.ip.kind # "none" THEN req.ip ELSE req.host

CountOf(name) == Cardinality({k \in 1..Len(calls) : calls[k][1] = name})

(***************************************************************************)
(* C1.  For every core count n, nprocesses_nthreads(n) returns (p, t) with *)
(* p >= 1, t >= 1 and p * t = n; for n <= 4 it is (n, 1); for n > 4, p is  *)
(* the smallest divisor of n with p * p >= n.  partition(1) = (1, 1),      *)
(* partition(4) = (4, 1), partition(32) = (8, 4).  Checked on the counts   *)
(* the default request resolves to on a machine of n cores.                *)
(***************************************************************************)
C1_Partition ==
    Resolved =>
        LET n == ncores
            p == loc[1].n_workers.i
            t == loc[1].threads_per_worker.i
        IN  /\ loc[1].n_workers.kind = "int"
            /\ loc[1].threads_per_worker.kind = "int"
            /\ p >= 1
            /\ t >= 1
            /\ p * t = n
            /\ n <= 4 => p = n /\ t = 1
            /\ n > 4 => /\ n % p = 0
                        /\ p * p >= n
                        /\ \A d \in 1..(p - 1) : n % d = 0 => d * d < n
            /\ n = 1 => <<p, t>> = <<1, 1>>
            /\ n = 4 => <<p, t>> = <<4, 1>>
            /\ n = 32 => <<p, t>> = <<8, 4>>

C1_Witness ==
    /\ Resolved
    /\ ncores = 32
    /\ loc[1].n_workers = PyInt(8)
    /\ loc[1].threads_per_worker = PyInt(4)

(***************************************************************************)
(* C2.  With no explicit protocol the protocol is resolved by strict       *)
(* precedence: the scheme embedded in the host, else tls when a security   *)
(* context is supplied, else inproc when process mode is off and no        *)
(* scheduler port is requested, else tcp.  In every case, an explicit      *)
(* protocol included, the protocol handed to the scheduler spec and to the *)
(* worker spec is the same and ends with "://".                            *)
(***************************************************************************)
C2_ProtocolPrecedence ==
    Handed =>
        LET sp == handed[1].scheduler.options.protocol
            wp == handed[1].worker.options.protocol
            h == EffectiveHost
        IN  /\ sp = wp
            /\ Len(sp) >= Len(SEP)
            /\ SubSeq(sp, Len(sp) - Len(SEP) + 1, Len(sp)) = SEP
            /\ req.protocol.kind = "none" =>
                 IF EmbedsScheme(h)
                 THEN \E pre \in {SubSeq(h.s, 1, k) : k \in 0..Len(h.s)} :
                        IsSchemeOf(pre, h.s) /\ sp = pre \o SEP
                 ELSE IF req.security THEN sp = S_tls \o SEP
                 ELSE IF ~req.processes /\ req.scheduler_port \in {PyInt(0), PyNone}
                 THEN sp = S_inproc \o SEP
                 ELSE sp = S_tcp \o SEP

C2_Witness ==
    /\ Handed
    /\ req.protocol = PyNone
    /\ ~EmbedsScheme(EffectiveHost)
    /\ req.security
    /\ ~req.processes
    /\ req.scheduler_port = PyInt(0)
    /\ handed[1].scheduler.options.protocol = S_tls \o SEP
    /\ handed[1].worker.options.protocol = S_tls \o SEP

(***************************************************************************)
(* C3.  As claimed: with host = "tls://foo" and no explicit protocol the   *)
(* resolved protocol is "tls://" and the host placed in the scheduler spec *)
(* is "foo", the scheme having been split off.                             *)
(***************************************************************************)
C3_HostSchemeStripped ==
    (/\ Handed
     /\ req.host = PyStr(S_tls \o SEP \o S_foo)
     /\ req.ip = PyNone
     /\ req.protocol = PyNone)
        => /\ handed[1].scheduler.options.protocol = S_tls \o SEP
           /\ handed[1].scheduler.options.host = PyStr(S_foo)

(***************************************************************************)
(* C3, amended.  With host = "tls://foo" and no explicit protocol the      *)
(* resolved protocol is "tls://" and the host placed in the scheduler spec *)
(* is the supplied "tls://foo", unchanged: only the protocol is derived    *)
(* from the scheme.                                                        *)
(***************************************************************************)
C3_HostSchemeKept ==
    (/\ Handed
     /\ req.host = PyStr(S_tls \o SEP \o S_foo)
     /\ req.ip = PyNone
     /\ req.protocol = PyNone)
        => /\ handed[1].scheduler.options.protocol = S_tls \o SEP
           /\ handed[1].scheduler.options.host = PyStr(S_tls \o SEP \o S_foo)

C3_Witness ==
    /\ Handed
    /\ req.host = PyStr(S_tls \o SEP \o S_foo)
    /\ req.ip = PyNone
    /\ req.protocol = PyNone
    /\ ~req.security
    /\ handed[1].scheduler.options.protocol = S_tls \o SEP

(***************************************************************************)
(* C4.  For a supplied process count p >= 1 and an unset thread count the  *)
(* resolved threads per process is ceil(coreCount / p), at least 1, so     *)
(* p * threads >= coreCount; p = 3 on 8 cores resolves 3 threads, never 2. *)
(***************************************************************************)
C4_ThreadsOvercommit ==
    (/\ Resolved
     /\ req.n_workers.kind = "int"
     /\ req.n_workers.i >= 1
     /\ req.threads_per_worker.kind = "none")
        => LET p == req.n_workers.i
               t == loc[1].threads_per_worker.i
           IN  /\ loc[1].threads_per_worker.kind = "int"
               /\ t >= 1
               /\ p * t >= ncores
               /\ p * (t - 1) < ncores
               /\ Handed => handed[1].worker.options.ncores = PyInt(t)
               /\ (p = 3 /\ ncores = 8) => t = 3

C4_Witness ==
    /\ Handed
    /\ req.n_workers = PyInt(3)
    /\ req.threads_per_worker = PyNone
    /\ ncores = 8
    /\ handed[1].worker.options.ncores = PyInt(3)

(***************************************************************************)
(* C5.  As claimed: one run of close_clusters calls close on every handle  *)
(* of its snapshot even if some close raises, so the number of close       *)
(* attempts equals the number of registered handles, and no failure        *)
(* propagates out of the drain.                                            *)
(***************************************************************************)
C5_DrainAttemptsAll ==
    dpc \in {"returned", "raised"} =>
        /\ Len(attempts) = Len(snapshot)
        /\ dpc = "returned"

(***************************************************************************)
(* C6.  The host is defaulted to 127.0.0.1 exactly when, after aliasing,   *)
(* no host was supplied, no interface was requested and the resolved       *)
(* protocol is not inproc; otherwise it is left as supplied.  The only     *)
(* host the resolver can introduce is 127.0.0.1, never a wildcard or an    *)
(* empty address.                                                          *)
(***************************************************************************)
C6_LoopbackDefault ==
    Resolved =>
        LET h == EffectiveHost
            out == loc[1].host
            defaulted == /\ h = PyNone
                         /\ req.interface \in {PyNone, PyStr(<<>>)}
                         /\ loc[1].protocol # S_inproc \o SEP
        IN  /\ defaulted => out = PyStr(S_loopback)
            /\ ~defaulted => out = h
            /\ out # h => out = PyStr(S_loopback)
            /\ out \in {PyStr(S_wild), PyStr(<<>>)} => out = h
            /\ Handed => handed[1].scheduler.options.host = out

C6_Witness ==
    /\ Handed
    /\ req.host = PyNone
    /\ req.ip = PyNone
    /\ req.interface = PyNone
    /\ ~req.processes
    /\ req.protocol = PyNone
    /\ req.security
    /\ handed[1].scheduler.options.host = PyStr(S_loopback)

(***************************************************************************)
(* C7.  As claimed: for every request whose process count and thread count *)
(* are each unset or a supplied non-negative integer, a construction that  *)
(* reaches the spec builder hands the worker spec an integer thread count  *)
(* >= 1 and builds a worker-slot map for a process count >= 1.             *)
(***************************************************************************)
C7_CountsPositive ==
    Handed =>
        /\ handed[1].worker.options.ncores.kind = "int"
        /\ handed[1].worker.options.ncores.i >= 1
        /\ Cardinality(handed[1].workers) >= 1

(***************************************************************************)
(* C7, amended.  For every request whose process count and thread count    *)
(* are each unset or a supplied positive integer, a construction that      *)
(* reaches the spec builder hands the worker spec an integer thread count  *)
(* >= 1 and builds a worker-slot map for a process count >= 1, the slots   *)
(* being 0 .. process_count - 1.                                           *)
(***************************************************************************)
C7_CountsPositiveWhenSuppliedPositive ==
    (/\ Handed
     /\ req.n_workers.kind = "int" => req.n_workers.i >= 1
     /\ req.threads_per_worker.kind = "int" => req.threads_per_worker.i >= 1)
        => /\ handed[1].worker.options.ncores.kind = "int"
           /\ handed[1].worker.options.ncores.i >= 1
           /\ loc[1].n_workers.kind = "int"
           /\ loc[1].n_workers.i >= 1
           /\ handed[1].workers = 0..(loc[1].n_workers.i - 1)
           /\ Cardinality(handed[1].workers) >= 1

C7_Witness ==
    /\ Handed
    /\ req.n_workers = PyNone
    /\ req.threads_per_worker.kind = "int"
    /\ req.threads_per_worker.i > ncores
    /\ handed[1].workers = {0}
    /\ handed[1].worker.options.ncores = req.threads_per_worker

(***************************************************************************)
(* C8.  As claimed: a handle whose construction through __init__ has just  *)
(* completed, and which is still strongly referenced, is a member of       *)
(* clusters_to_close.                                                      *)
(***************************************************************************)
C8_ConstructedIsRegistered ==
    (pc = "done" /\ self \in live) => self \in clusters_to_close

(***************************************************************************)
(* C9.  Construction is atomic with respect to resolution-time errors: a   *)
(* collaborator call that raises is the last call of the construction and  *)
(* the constructor has raised, so after a failing parse_memory_limit no    *)
(* spec has been handed over and neither SpecCluster.__init__ nor scale    *)
(* has been called.  SpecCluster.__init__ is called only with protocol,    *)
(* host, counts and memory limit resolved, and scale(process_count) is     *)
(* called at most once, right after that constructor returned.             *)
(***************************************************************************)
C9_AtomicConstruction ==
    /\ \A k \in 1..Len(calls) :
         calls[k][3] = "raise" => k = Len(calls) /\ pc = "raised"
    /\ (Len(calls) >= 1 /\ calls[1] = <<"parse_memory_limit", calls[1][2], "raise">>)
         => /\ ~Handed
            /\ CountOf("SpecCluster.__init__") = 0
            /\ CountOf("scale") = 0
    /\ Handed <=> CountOf("SpecCluster.__init__") = 1
    /\ CountOf("SpecCluster.__init__") <= 1
    /\ CountOf("scale") <= 1
    /\ CountOf("parse_memory_limit") <= 1
    /\ Handed =>
         /\ Resolved
         /\ EndsWith(loc[1].protocol, SEP)
         /\ loc[1].n_workers.kind = "int"
         /\ Truthy(loc[1].n_workers) => loc[1].memory_limit.kind = "int"
         /\ NeedsMemoryLimit(loc[1], req) =>
              calls[1] = <<"parse_memory_limit", loc[1].n_workers.i, "ok">>
    /\ CountOf("scale") = 1 =>
         /\ Len(calls) >= 2
         /\ calls[Len(calls)][1] = "scale"
         /\ calls[Len(calls)][2] = loc[1].n_workers.i
         /\ calls[Len(calls) - 1][1] = "SpecCluster.__init__"
         /\ calls[Len(calls) - 1][3] = "ok"
    /\ pc = "done" => CountOf("scale") = 1

C9_Witness ==
    /\ pc = "raised"
    /\ Len(calls) = 1
    /\ calls[1][1] = "parse_memory_limit"
    /\ calls[1][3] = "raise"
    /\ ~Handed
    /\ self \notin live

(***************************************************************************)
(* C10.  The legacy fields are applied before every defaulting rule: with  *)
(* ip supplied, the resolved protocol and host are those of the same       *)
(* request with host set to the ip value, so a scheme embedded in ip       *)
(* selects the protocol and the loopback default is not applied; with the  *)
(* diagnostics port supplied the scheduler spec's dashboard_address is     *)
(* that value; with neither supplied, the caller's host and                *)
(* dashboard_address enter resolution unchanged.                           *)
(***************************************************************************)
C10_AliasingFirst ==
    Handed =>
        LET sched == handed[1].scheduler.options
            asHost == Locals([req EXCEPT !.host = req.ip, !.ip = PyNone], ncores)
        IN  /\ req.ip.kind # "none" =>
                 /\ sched.host = req.ip
                 /\ sched.host = asHost.host
                 /\ sched.protocol = asHost.protocol
                 /\ (req.protocol = PyNone /\ EmbedsScheme(req.ip)) =>
                        IsSchemeOf(SubSeq(sched.protocol, 1,
                                          Len(sched.protocol) - Len(SEP)),
                                   req.ip.s)
            /\ req.diagnostics_port.kind # "none" =>
                 sched.dashboard_address = req.diagnostics_port
            /\ req.ip.kind = "none" =>
                 /\ req.host.kind # "none" => sched.host = req.host
                 /\ req.host.kind = "none" => sched.host \in {PyNone, PyStr(S_loopback)}
            /\ req.diagnostics_port.kind = "none" =>
                 sched.dashboard_address = req.dashboard_address

C10_Witness ==
    /\ Handed
    /\ req.host = PyNone
    /\ req.ip = PyStr(S_tcp \o SEP \o S_bar)
    /\ req.protocol = PyNone
    /\ req.security
    /\ req.diagnostics_port = PyInt(8787)
    /\ handed[1].scheduler.options.protocol = S_tcp \o SEP
    /\ handed[1].scheduler.options.host = req.ip
    /\ handed[1].scheduler.options.dashboard_address = PyInt(8787)

====
